---------------------------- MODULE Spec2Model ----------------------------
(***************************************************************************)
(* Task orchestration of the director agent: the planner's plan            *)
(* (planner.ts), the Task Store and Dependency Resolver (task-manager, of  *)
(* which the repository's sources here hold only the callers), the         *)
(* orchestration facade (the PLAN_TASK, GET_WORKER_TASK,                   *)
(* EXECUTE_WORKER_TASK and GET_TASK_STATUS cases of route.ts), the single  *)
(* worker's poll loop (ChatFeed.tsx, initializeSession) and the Execution  *)
(* Loop that carries one subtask to DONE or FAILED (worker,                *)
(* executeSubtask).                                                        *)
(*                                                                         *)
(* A subtask id `subtask-k` is modelled by the number k, and a plan's      *)
(* 0-based index i by the position i + 1 of a TLA+ sequence.  A subtask's  *)
(* description and goal, and a task's goal, summary and sessionId are      *)
(* immutable text no operation here reads, and are left out.               *)
(***************************************************************************)
EXTENDS Integers, Sequences, FiniteSets, TLC

(***************************************************************************)
(* Bounds of the model.                                                    *)
(***************************************************************************)
\* The longest plan the planning LLM returns.
MaxSubtasks == 3
\* The most dependency indices one subtask of the plan declares.
MaxDeps == 2
\* The largest maxRetries executeSubtask is called with (its default).
MaxRetries == 3
\* The number of different instructions the worker LLM gives to ACT.
MaxInstructions == 1
\* The largest maxRetries of a call whose worker LLM raises at every turn.
MaxFaultRetries == 14

\* The Task Store is keyed by task id, and tasks never read or write each
\* other: the store admits one task.
TaskIds == {"task-1"}
NoTaskId == ""
\* The (taskId, subtaskId) pairs of the requests: the id of the store's task
\* (the id of no task as long as no plan is admitted) with every subtask id a
\* plan can hold (the id of no subtask for a task of a shorter plan).
RequestIds == TaskIds \X (1..MaxSubtasks)

VARIABLES
    tasks,          \* the Task Store: task id -> Task
    planResult,     \* planResult.object.subtasks, as the planning LLM returned it
    request,        \* the last request the route handler served
    response,       \* the JSON body (and HTTP status) it answered with
    pc,             \* the poll loop's position in initializeSession
    taskId,         \* the poll loop's `taskId` (planData.taskId)
    workerData,     \* the poll loop's `workerData.subtaskId`
    taskCompleted,  \* the poll loop's `taskCompleted`
    worker          \* the locals of one call of executeSubtask

pollVars == <<pc, taskId, workerData, taskCompleted>>
facadeVars == <<tasks, planResult, request, response>>
vars == <<tasks, planResult, request, response, pc, taskId, workerData,
          taskCompleted, worker>>

(***************************************************************************)
(* worker: the result of one run of the Execution Loop.                    *)
(***************************************************************************)
NoResult == [status |-> "NONE", error |-> "", steps |-> 0, retryCount |-> 0]

\* executeSubtask returns a WorkerResult whose status is DONE or FAILED (a
\* FAILED one carries an error string), with the number of its steps and
\* its retry count; which one is the Decision Oracle's and the Actuator's
\* doing.
executeSubtask ==
    { [status |-> "DONE", error |-> "", steps |-> 2, retryCount |-> 1],
      [status |-> "FAILED", error |-> "Exceeded maximum number of steps (15)",
       steps |-> 15, retryCount |-> 0] }

\* The call of executeSubtask raised.  Its outer catch covers its whole
\* body, so that only the runtime raises there; the facade's catch block
\* provides for it.
LoopFault ==
    [status |-> "raised", error |-> "LoopFault", steps |-> 0, retryCount |-> 0]

(***************************************************************************)
(* worker: the Execution Loop of executeSubtask.                           *)
(*                                                                         *)
(* `steps` is kept as its length, with the tool of the step pushed last    *)
(* and the number of synthetic WAIT steps among them; the loop itself      *)
(* reads nothing else of it.  currentUrl and currentScreenshot only go     *)
(* into the prompt of the worker LLM, whose answer is any answer, and the  *)
(* best-effort calls that refresh them change nothing else whether they    *)
(* succeed or not: they are left out.                                      *)
(***************************************************************************)
MAX_STEPS == 15
MAX_HISTORY == 5
MAX_DUPLICATES == 2

\* The tools that end the run.
TerminalTools == {"DONE", "FAIL", "CLOSE"}

NoStep == [tool |-> "", instruction |-> 0, completion |-> FALSE]

\* generateObject raised.
LLMFault == [tool |-> "fault", instruction |-> 0, completion |-> FALSE]

\* What generateObject may return to getNextStep: a tool of the schema's
\* enum, an instruction (0 is the empty one), and a text or reasoning that
\* does or does not hold "task complete", "goal achieved" or "subtask
\* complete".  ACT stands for the tools after which runStagehand closes its
\* Stagehand (GOTO, ACT, WAIT, NAVBACK), and EXTRACT, the tool whose data the
\* loop keeps, for those after which it does not (EXTRACT, OBSERVE,
\* SCREENSHOT); the SCREENSHOT step itself is the one getNextStep falls back
\* to.
LLMAnswers ==
    {LLMFault}
        \cup [tool : {"ACT"}, instruction : 1..MaxInstructions,
              completion : BOOLEAN]
        \cup [tool : {"EXTRACT"}, instruction : {1}, completion : {FALSE}]
        \cup [tool : {"CLOSE", "DONE", "FAIL"}, instruction : {1},
              completion : BOOLEAN]
        \cup [tool : {"FAIL"}, instruction : {0}, completion : {FALSE}]

\* A mutant: the LLM's step is returned as it is, whatever it says of
\* completion.
getNextStepPlain(llm) ==
    IF llm = LLMFault
    THEN [tool |-> "SCREENSHOT", instruction |-> 0, completion |-> FALSE]
    ELSE llm

\* A mutant: a generation that raised is answered with a FAIL step.
getNextStepFailing(llm) ==
    IF llm = LLMFault
    THEN [tool |-> "FAIL", instruction |-> 0, completion |-> FALSE]
    ELSE IF llm.tool # "DONE" /\ llm.completion
    THEN [tool |-> "DONE", instruction |-> llm.instruction,
          completion |-> TRUE]
    ELSE llm

\* getNextStep: the LLM's step; a DONE step when the LLM spoke of completion
\* without the DONE tool; the fallback SCREENSHOT step with the empty
\* instruction when generation raised.  It never raises.
getNextStep(llm) ==
    IF llm = LLMFault
    THEN [tool |-> "SCREENSHOT", instruction |-> 0, completion |-> FALSE]
    ELSE IF llm.tool # "DONE" /\ llm.completion
    THEN [tool |-> "DONE", instruction |-> llm.instruction,
          completion |-> TRUE]
    ELSE llm

\* What executeStep(nextStep) does: it returns nothing, returns data, or
\* raises.
ActuatorOutcomes == {"empty", "data", "fault"}

\* The same with two different data, to tell a later result from an earlier
\* one.
ExtractOutcomes == {"empty", "data", "data2", "fault"}

\* What the best-effort calls of executeStep do in one turn: the EXTRACT of
\* document.location.href returns a string, returns something else, or
\* raises; the SCREENSHOT returns data or raises.
Refreshes == [url : {"string", "other", "fault"}, screenshot : {"data", "fault"}]

RefreshOk == [url |-> "string", screenshot |-> "data"]

NoRefresh == [url |-> "none", screenshot |-> "none"]

\* runStagehand answers DONE and FAIL without a Stagehand; for any other
\* method its finally block calls stagehand.close() unless the method is one
\* of these, whether the method returned or raised.
KeepsSession == {"EXTRACT", "OBSERVE", "SCREENSHOT"}

ClosesSession(method) ==
    method \notin {"DONE", "FAIL"} /\ method \notin KeepsSession

Action(step) == [tool |-> step.tool, instruction |-> step.instruction]

\* A mutant: one more duplicate is let through.
isRepeatingActionLate(history, step) ==
    Cardinality({i \in 1..Len(history) : history[i] = Action(step)})
        > MAX_DUPLICATES

\* isRepeatingAction's answer: the action is in the recent history
\* MAX_DUPLICATES times or more.
isRepeatingAction(history, step) ==
    Cardinality({i \in 1..Len(history) : history[i] = Action(step)})
        >= MAX_DUPLICATES

\* executeStep is called with the step unless the step ends the run or is a
\* repetition.
Executed(history, step) ==
    /\ step.tool \notin TerminalTools
    /\ ~step.completion
    /\ ~isRepeatingAction(history, step)

\* What executeStep may do with the step, of `outcomes`: runStagehand
\* returns the extraction for EXTRACT and the data of Page.captureScreenshot
\* for SCREENSHOT, and nothing (`break`) for GOTO, ACT, WAIT and NAVBACK.
OutcomesOf(history, step, outcomes) ==
    IF ~Executed(history, step) THEN {"none"}
    ELSE IF step.tool = "EXTRACT" THEN outcomes
    ELSE IF step.tool = "SCREENSHOT" THEN outcomes \cap {"data", "fault"}
    ELSE outcomes \cap {"empty", "fault"}

\* A mutant: nothing is shifted out of the history.
RememberAll(history, step) == Append(history, Action(step))

\* isRepeatingAction's effect: the action is pushed, and the oldest is
\* shifted out of a history longer than MAX_HISTORY.
Remember(history, step) ==
    LET pushed == Append(history, Action(step))
    IN  IF Len(pushed) > MAX_HISTORY THEN Tail(pushed) ELSE pushed

NoWorkerResult ==
    [status |-> "NONE", error |-> "", steps |-> 0, retryCount |-> 0,
     extraction |-> "null"]

\* The locals before the call.  `iterations` counts the turns of the while
\* loop; `answer` is what generateObject did in the last turn that asked for
\* a step; `acted` tells whether the last turn called executeStep with the
\* step it was given, `faulted` whether that call raised, `closed`
\* whether it called stagehand.close(), `extracted` what an EXTRACT step of
\* the last turn returned, and `refresh` what the best-effort calls of the
\* last turn did.
NoWorker ==
    [state |-> "STARTING", maxRetries |-> 0, steps |-> 0, pauses |-> 0,
     lastStep |-> "", extraction |-> "null", previousExtraction |-> "null",
     currentScreenshot |-> "null", currentUrl |-> "unknown",
     retryCount |-> 0,
     recentActionHistory |-> <<>>, answer |-> NoStep, nextStep |-> NoStep,
     acted |-> FALSE, faulted |-> FALSE, closed |-> FALSE,
     extracted |-> "none", refresh |-> NoRefresh,
     iterations |-> 0, result |-> NoWorkerResult]

\* steps.push(step)
Push(w, tool) == [w EXCEPT !.steps = @ + 1, !.lastStep = tool]

\* return { status, steps, error, extraction, retryCount }; the recent
\* history ends with the call.
Return(w, status, error) ==
    [w EXCEPT !.state = "RETURNED",
              !.recentActionHistory = <<>>,
              !.result = [status |-> status, error |-> error,
                          steps |-> w.steps, retryCount |-> w.retryCount,
                          extraction |-> IF status = "DONE"
                                         THEN w.extraction ELSE "null"]]

\* A mutant: the ceiling is tested with >.
MaxStepsReachedLate(n) == n > MAX_STEPS

\* if (steps.length >= MAX_STEPS)
MaxStepsReached(n) == n >= MAX_STEPS

\* A mutant: the DONE step is answered without the extraction.
DoneBranchNoExtraction(w, step) ==
    Return([Push(w, "DONE") EXCEPT !.extraction = "null"], "DONE", "")

\* if (nextStep.tool === "DONE")
DoneBranch(w, step) == Return(Push(w, "DONE"), "DONE", "")

\* The string of an instruction, as an error message: the schema's
\* z.string() admits the empty one.
InstructionText(instruction) == IF instruction = 0 THEN "" ELSE "instruction"

\* if (nextStep.tool === "FAIL")
FailBranch(w, step) ==
    Return(Push(w, "FAIL"), "FAILED", InstructionText(step.instruction))

\* A mutant: a repetition is only waited out.
RepeatBranchIdle(w, step) == w

\* A mutant: a repetition does not count as a retry.
RepeatBranchNoRetry(w, step) ==
    [Push(w, "WAIT") EXCEPT !.pauses = @ + 1]

\* A mutant: at maxRetries a FAIL step is pushed, as the catch block does.
RepeatBranchFailStep(w, step) ==
    LET retried == [w EXCEPT !.retryCount = @ + 1]
    IN  IF retried.retryCount >= retried.maxRetries
        THEN Return(Push(retried, "FAIL"), "FAILED", "repeating")
        ELSE [Push(retried, "WAIT") EXCEPT !.pauses = @ + 1]

\* if (isRepeatingAction(nextStep)): the retry counter is incremented; at
\* maxRetries the run fails, otherwise the synthetic WAIT step is pushed and
\* the loop continues.
RepeatBranch(w, step) ==
    LET retried == [w EXCEPT !.retryCount = @ + 1]
    IN  IF retried.retryCount >= retried.maxRetries
        THEN Return(retried, "FAILED", "repeating")
        ELSE [Push(retried, "WAIT") EXCEPT !.pauses = @ + 1]

\* A mutant: the fault is caught and not counted.
FaultBranchNoRetry(w) == w

\* A mutant: at maxRetries the run fails without a FAIL step.
FaultBranchNoFailStep(w) ==
    LET retried == [w EXCEPT !.retryCount = @ + 1]
    IN  IF retried.retryCount >= retried.maxRetries
        THEN Return(retried, "FAILED", "fault")
        ELSE retried

\* A mutant: the run fails only above maxRetries.
FaultBranchLate(w) ==
    LET retried == [w EXCEPT !.retryCount = @ + 1]
    IN  IF retried.retryCount > retried.maxRetries
        THEN Return(Push(retried, "FAIL"), "FAILED", "fault")
        ELSE retried

\* catch (error) of the loop's try: the retry counter is incremented; at
\* maxRetries the FAIL step is pushed and the run fails, otherwise the loop
\* continues.
FaultBranch(w) ==
    LET retried == [w EXCEPT !.retryCount = @ + 1]
    IN  IF retried.retryCount >= retried.maxRetries
        THEN Return(Push(retried, "FAIL"), "FAILED", "fault")
        ELSE retried

\* A mutant: an EXTRACT that returns nothing clears what was kept.
RememberedLast(w, step, outcome) ==
    IF step.tool = "EXTRACT"
    THEN [w EXCEPT !.extracted = outcome,
                   !.extraction = IF outcome # "empty" THEN outcome
                                  ELSE "null",
                   !.previousExtraction = IF outcome # "empty" THEN outcome
                                          ELSE "null"]
    ELSE w

\* if (nextStep.tool === "EXTRACT" && result): the result of the step is
\* kept for the run's result and for the next request to the worker LLM.
Remembered(w, step, outcome) ==
    IF step.tool = "EXTRACT"
    THEN [w EXCEPT !.extracted = outcome,
                   !.extraction = IF outcome # "empty" THEN outcome ELSE @,
                   !.previousExtraction = IF outcome # "empty" THEN outcome
                                          ELSE @]
    ELSE w

\* A mutant: a CLOSE step is executed like any other.
ExecuteBranchClosing(w, step, outcome) ==
    LET called == [Push(w, step.tool) EXCEPT
                        !.acted = TRUE,
                        !.closed = ClosesSession(step.tool)]
    IN  IF step.completion
        THEN Return(Push(Push(w, step.tool), "DONE"), "DONE", "")
        ELSE IF outcome = "fault"
        THEN FaultBranch([called EXCEPT !.faulted = TRUE])
        ELSE Remembered(called, step, outcome)

\* A mutant: a fault of executeStep is recorded as a step of its own.
ExecuteBranchRecordingFault(w, step, outcome) ==
    LET pushed == Push(w, step.tool)
        called == [pushed EXCEPT !.acted = TRUE,
                                 !.closed = ClosesSession(step.tool)]
    IN  IF step.completion THEN Return(Push(pushed, "DONE"), "DONE", "")
        ELSE IF step.tool = "CLOSE"
        THEN Return(Push(pushed, "DONE"), "DONE", "")
        ELSE IF outcome = "fault"
        THEN FaultBranch(Push([called EXCEPT !.faulted = TRUE], "FAIL"))
        ELSE Remembered(called, step, outcome)

\* The step is pushed; completion language, or the CLOSE tool, ends the run
\* with a DONE step of the loop's own; any other step is executed, and the
\* data of an EXTRACT is kept.
ExecuteBranch(w, step, outcome) ==
    LET pushed == Push(w, step.tool)
        called == [pushed EXCEPT !.acted = TRUE,
                                 !.closed = ClosesSession(step.tool)]
    IN  IF step.completion THEN Return(Push(pushed, "DONE"), "DONE", "")
        ELSE IF step.tool = "CLOSE"
        THEN Return(Push(pushed, "DONE"), "DONE", "")
        ELSE IF outcome = "fault"
        THEN FaultBranch([called EXCEPT !.faulted = TRUE])
        ELSE Remembered(called, step, outcome)

\* One turn of the while loop that asks for a step: llm is what
\* generateObject did, outcome what executeStep did with the step.
Turn(w, llm, outcome) ==
    LET step == getNextStep(llm)
        asked == [w EXCEPT !.answer = llm, !.nextStep = step,
                           !.acted = FALSE, !.faulted = FALSE,
                           !.closed = FALSE, !.extracted = "none",
                           !.refresh = NoRefresh]
        heard == [asked EXCEPT !.recentActionHistory = Remember(@, step)]
    IN  IF step.tool = "DONE" THEN DoneBranch(asked, step)
        ELSE IF step.tool = "FAIL" THEN FailBranch(asked, step)
        ELSE IF isRepeatingAction(w.recentActionHistory, step)
        THEN RepeatBranch(heard, step)
        ELSE ExecuteBranch(heard, step, outcome)

\* A mutant: a refresh that raises loses the screenshot and the location.
RefreshClearing(t, outcome, refresh) ==
    IF t.state # "LOOPING" THEN t
    ELSE IF t.acted /\ ~t.faulted
    THEN LET url == IF t.nextStep.tool \in {"GOTO", "NAVBACK"}
                    THEN refresh.url ELSE "none"
             shot == IF t.nextStep.tool # "SCREENSHOT"
                     THEN refresh.screenshot ELSE "none"
         IN  [t EXCEPT
                !.currentUrl = IF url = "string" THEN "url"
                               ELSE IF url = "fault" THEN "unknown" ELSE @,
                !.currentScreenshot =
                    IF t.nextStep.tool = "SCREENSHOT"
                    THEN IF outcome = "empty" THEN "null" ELSE "shot"
                    ELSE IF shot = "data" THEN "shot" ELSE "null",
                !.refresh = [url |-> url, screenshot |-> shot]]
    ELSE [t EXCEPT
            !.currentScreenshot = IF refresh.screenshot = "data"
                                  THEN "shot" ELSE "null",
            !.refresh = [url |-> "none", screenshot |-> refresh.screenshot]]

\* The best-effort calls of a turn that goes on, each in a try of its own.
\* After a step that was executed: the location after GOTO or NAVBACK (kept
\* unless a string comes back), then the screenshot (the step's own result
\* after a SCREENSHOT step, kept when the call raises).  After a repetition
\* and after a caught fault: the screenshot.
Refresh(t, outcome, refresh) ==
    IF t.state # "LOOPING" THEN t
    ELSE IF t.acted /\ ~t.faulted
    THEN LET url == IF t.nextStep.tool \in {"GOTO", "NAVBACK"}
                    THEN refresh.url ELSE "none"
             shot == IF t.nextStep.tool # "SCREENSHOT"
                     THEN refresh.screenshot ELSE "none"
         IN  [t EXCEPT
                !.currentUrl = IF url = "string" THEN "url" ELSE @,
                !.currentScreenshot =
                    IF t.nextStep.tool = "SCREENSHOT"
                    THEN IF outcome = "empty" THEN "null" ELSE "shot"
                    ELSE IF shot = "data" THEN "shot" ELSE @,
                !.refresh = [url |-> url, screenshot |-> shot]]
    ELSE [t EXCEPT
            !.currentScreenshot = IF refresh.screenshot = "data"
                                  THEN "shot" ELSE @,
            !.refresh = [url |-> "none", screenshot |-> refresh.screenshot]]

(***************************************************************************)
(* planner.ts                                                              *)
(***************************************************************************)
\* The dependency indices a subtask of an n-subtask plan may declare:
\* z.array(z.number()) admits any number, and n stands for the ones out of
\* range.  The longest plans declare indices in range only.
DepIndices(n) == IF n < MaxSubtasks THEN 0..n ELSE 0..(n - 1)

DepSets(n) == {D \in SUBSET DepIndices(n) : Cardinality(D) <= MaxDeps}

\* What generateObject may return for `subtasks` (an empty array included,
\* which the schema's min(1) rejects).
LLMPlans ==
    UNION {[1..n -> [dependencies : DepSets(n)]] : n \in 0..MaxSubtasks}

\* z.array(...).min(1)
SchemaOk(llmPlan) == Len(llmPlan) >= 1

\* `subtask-${index + 1}`
SubtaskId(index) == index + 1

\* A mutant: the dependency index is used as the number of the id.
createTaskPlanDepOffByOne(llmPlan) ==
    [i \in 1..Len(llmPlan) |->
        [id |-> SubtaskId(i - 1),
         dependencies |-> {d : d \in llmPlan[i].dependencies},
         status |-> "PENDING"]]

\* A mutant: the ids are numbered from the end of the plan.
createTaskPlanIdsReversed(llmPlan) ==
    [i \in 1..Len(llmPlan) |->
        [id |-> SubtaskId(Len(llmPlan) - i),
         dependencies |-> {SubtaskId(d) : d \in llmPlan[i].dependencies},
         status |-> "PENDING"]]

\* A mutant: a dependency index that is no index of the plan is dropped.
createTaskPlanDropping(llmPlan) ==
    [i \in 1..Len(llmPlan) |->
        [id |-> SubtaskId(i - 1),
         dependencies |-> {SubtaskId(d) : d \in llmPlan[i].dependencies
                                                \cap 0..(Len(llmPlan) - 1)},
         status |-> "PENDING"]]

\* A mutant: the ids are numbered from subtask-2.
createTaskPlanOneBased(llmPlan) ==
    [i \in 1..Len(llmPlan) |->
        [id |-> SubtaskId(i),
         dependencies |-> {SubtaskId(d) : d \in llmPlan[i].dependencies},
         status |-> "PENDING"]]

\* The transformation of the LLM's subtasks into the TaskPlan's.
createTaskPlan(llmPlan) ==
    [i \in 1..Len(llmPlan) |->
        [id |-> SubtaskId(i - 1),
         dependencies |-> {SubtaskId(d) : d \in llmPlan[i].dependencies},
         status |-> "PENDING"]]

(***************************************************************************)
(* task-manager: the Task Store and Dependency Resolver.                   *)
(***************************************************************************)
HasTask(store, tid) == tid \in DOMAIN store

\* The position of the first subtask with this id, 0 when there is none.
IndexOfId(subtasks, id) ==
    LET at == {i \in 1..Len(subtasks) : subtasks[i].id = id}
    IN  IF at = {} THEN 0 ELSE CHOOSE i \in at : \A j \in at : i <= j

PlanIds(plan) == {plan[i].id : i \in 1..Len(plan)}

\* Kahn's topological sort: take away, as long as there are any, the subtasks
\* all of whose dependencies are taken away; what is left lies on a cycle.
RECURSIVE TopoLeft(_, _)
TopoLeft(plan, left) ==
    LET ready == {i \in left :
                    \A d \in plan[i].dependencies :
                        d \notin {plan[j].id : j \in left}}
    IN  IF ready = {} THEN left ELSE TopoLeft(plan, left \ ready)

\* createTask's validation: at least one subtask, every dependency names a
\* subtask of the plan, and the dependency edges sort topologically.
ValidPlan(plan) ==
    /\ Len(plan) >= 1
    /\ \A i \in 1..Len(plan) : plan[i].dependencies \subseteq PlanIds(plan)
    /\ TopoLeft(plan, 1..Len(plan)) = {}

\* A subtask is eligible iff it is PENDING and each of its dependencies maps
\* to a subtask that is DONE.
IsEligible(subtasks, i) ==
    /\ subtasks[i].status = "PENDING"
    /\ \A d \in subtasks[i].dependencies :
          /\ IndexOfId(subtasks, d) # 0
          /\ subtasks[IndexOfId(subtasks, d)].status = "DONE"

Eligible(subtasks) == {i \in 1..Len(subtasks) : IsEligible(subtasks, i)}

StoppedDispatching(subtasks) ==
    /\ Eligible(subtasks) = {}
    /\ \A i \in 1..Len(subtasks) : subtasks[i].status # "IN_PROGRESS"

\* A mutant: the aggregate is FAILED as soon as one subtask is.
TaskStatusOfFailFast(subtasks) ==
    IF \A i \in 1..Len(subtasks) : subtasks[i].status = "DONE" THEN "DONE"
    ELSE IF \E i \in 1..Len(subtasks) : subtasks[i].status = "FAILED"
    THEN "FAILED"
    ELSE IF \E i \in 1..Len(subtasks) : subtasks[i].status # "PENDING"
    THEN "IN_PROGRESS"
    ELSE "PENDING"

\* A mutant: the aggregate is DONE once no subtask is left PENDING.
TaskStatusOfNoneLeft(subtasks) ==
    IF \A i \in 1..Len(subtasks) : subtasks[i].status # "PENDING" THEN "DONE"
    ELSE IF \E i \in 1..Len(subtasks) : subtasks[i].status # "PENDING"
    THEN "IN_PROGRESS"
    ELSE "PENDING"

\* The aggregate Task.status of the subtasks' statuses.
TaskStatusOf(subtasks) ==
    IF \A i \in 1..Len(subtasks) : subtasks[i].status = "DONE" THEN "DONE"
    ELSE IF /\ \E i \in 1..Len(subtasks) : subtasks[i].status = "FAILED"
            /\ StoppedDispatching(subtasks)
    THEN "FAILED"
    ELSE IF \E i \in 1..Len(subtasks) : subtasks[i].status # "PENDING"
    THEN "IN_PROGRESS"
    ELSE "PENDING"

\* The Task created from a valid plan: every subtask PENDING, no result yet.
createTask(plan) ==
    LET subtasks == [i \in 1..Len(plan) |->
                        [id |-> plan[i].id,
                         dependencies |-> plan[i].dependencies,
                         status |-> "PENDING",
                         result |-> NoResult]]
    IN  [subtasks |-> subtasks, status |-> TaskStatusOf(subtasks)]

NewTaskId(store) == CHOOSE tid \in TaskIds : tid \notin DOMAIN store

\* The position of the first eligible subtask in plan order; 0 for "none"
\* (also for a task the store does not hold).
getNextAvailableSubtask(store, tid) ==
    IF ~HasTask(store, tid) \/ Eligible(store[tid].subtasks) = {} THEN 0
    ELSE CHOOSE i \in Eligible(store[tid].subtasks) :
            \A j \in Eligible(store[tid].subtasks) : i <= j

\* updateSubtaskStatus fails with NotFound if either id is unknown.
NotFound(store, tid, sid) ==
    \/ ~HasTask(store, tid)
    \/ IndexOfId(store[tid].subtasks, sid) = 0

\* A mutant: an update that finds the status it is given already set takes
\* the subtask back to PENDING.
updateSubtaskStatusToggle(store, tid, sid, status, result) ==
    LET i == IndexOfId(store[tid].subtasks, sid)
        new == IF store[tid].subtasks[i].status = status THEN "PENDING"
               ELSE status
        subtasks == [store[tid].subtasks EXCEPT ![i].status = new,
                                                ![i].result = result]
    IN  [store EXCEPT ![tid] = [subtasks |-> subtasks,
                                status |-> TaskStatusOf(subtasks)]]

\* The store after updateSubtaskStatus(tid, sid, status, result): the status
\* and the result are set and Task.status is recomputed.
updateSubtaskStatus(store, tid, sid, status, result) ==
    LET i == IndexOfId(store[tid].subtasks, sid)
        subtasks == [store[tid].subtasks EXCEPT ![i].status = status,
                                                ![i].result = result]
    IN  [store EXCEPT ![tid] = [subtasks |-> subtasks,
                                status |-> TaskStatusOf(subtasks)]]

NoProgress == [completed |-> 0, total |-> 0, percentage |-> 0,
               subtaskStatuses |-> <<>>]

\* The progress view: derived from the task, nothing is changed.
getTaskProgressById(store, tid) ==
    LET subtasks == store[tid].subtasks
        completed == Cardinality({i \in 1..Len(subtasks) :
                                    subtasks[i].status = "DONE"})
    IN  [completed |-> completed,
         total |-> Len(subtasks),
         percentage |-> (completed * 100) \div Len(subtasks),
         subtaskStatuses |-> [i \in 1..Len(subtasks) |-> subtasks[i].status]]

(***************************************************************************)
(* route.ts: the facade's four cases of POST.                              *)
(***************************************************************************)
\* `repeated` records that the request before was the same one (the same
\* claim, or the same execute with the same result), with nothing in between;
\* `plan` is what the planning LLM returned to a PLAN_TASK.
NoRequest == [action |-> "", taskId |-> NoTaskId, subtaskId |-> 0,
              repeated |-> FALSE, plan |-> <<>>, result |-> NoResult]

ClaimRequest(tid) ==
    [action |-> "GET_WORKER_TASK", taskId |-> tid, subtaskId |-> 0,
     repeated |-> (request.action = "GET_WORKER_TASK" /\ request.taskId = tid),
     plan |-> <<>>, result |-> NoResult]

ExecuteRequest(tid, sid, result) ==
    [action |-> "EXECUTE_WORKER_TASK", taskId |-> tid, subtaskId |-> sid,
     repeated |-> (/\ request.action = "EXECUTE_WORKER_TASK"
                   /\ request.taskId = tid
                   /\ request.subtaskId = sid
                   /\ response.success
                   /\ response.result = result),
     plan |-> <<>>, result |-> result]

\* `error` is the fault whose message the body's `error` carries, and
\* `updates` the calls of updateSubtaskStatus the request made, in order.
Response(success, http) ==
    [success |-> success, http |-> http, hasTask |-> FALSE, subtaskId |-> 0,
     taskId |-> NoTaskId, status |-> "", result |-> NoResult,
     progress |-> NoProgress, error |-> "", updates |-> <<>>]

\* A call updateSubtaskStatus(taskId, subtaskId, status, result), which
\* returned (`stored`) or threw.
Update(status, result, stored) ==
    [status |-> status, result |-> result, stored |-> stored]

\* The result the catch block of EXECUTE_WORKER_TASK stores.
Forced(error) ==
    [status |-> "FAILED", error |-> error, steps |-> 0, retryCount |-> 0]

Failure(http, error) == [Response(FALSE, http) EXCEPT !.error = error]

NoResponse == Response(FALSE, 0)

\* A mutant: a plan createTask rejects is admitted all the same.
PLAN_TASK_Admitting(llmPlan, fault) ==
    /\ request' = [NoRequest EXCEPT !.action = "PLAN_TASK", !.plan = llmPlan]
    /\ IF fault \/ ~SchemaOk(llmPlan)
       THEN /\ response' = Failure(500, "Planning agent failed")
            /\ UNCHANGED <<tasks, planResult>>
       ELSE /\ tasks' = tasks @@
                  (NewTaskId(tasks) :> createTask(createTaskPlan(llmPlan)))
            /\ planResult' = llmPlan
            /\ response' = [Response(TRUE, 200) EXCEPT
                                !.taskId = NewTaskId(tasks)]

\* case 'PLAN_TASK': the search agent or the planning LLM may raise
\* (`fault`); otherwise the LLM's subtasks are llmPlan.
PLAN_TASK(llmPlan, fault) ==
    /\ request' = [NoRequest EXCEPT !.action = "PLAN_TASK", !.plan = llmPlan]
    /\ IF fault \/ ~SchemaOk(llmPlan)
       THEN /\ response' = Failure(500, "Planning agent failed")
            /\ UNCHANGED <<tasks, planResult>>
       ELSE IF ~ValidPlan(createTaskPlan(llmPlan))
       THEN \* createTask throws InvalidPlan
            /\ response' = Failure(500, "InvalidPlan")
            /\ UNCHANGED <<tasks, planResult>>
       ELSE /\ tasks' = tasks @@
                  (NewTaskId(tasks) :> createTask(createTaskPlan(llmPlan)))
            /\ planResult' = llmPlan
            /\ response' = [Response(TRUE, 200) EXCEPT
                                !.taskId = NewTaskId(tasks)]

\* A mutant: the claim marks the subtask it returns IN_PROGRESS.
GET_WORKER_TASK_Marking(tid) ==
    LET i == getNextAvailableSubtask(tasks, tid)
    IN  /\ request' = ClaimRequest(tid)
        /\ IF i = 0
           THEN /\ response' = Response(TRUE, 200)
                /\ tasks' = tasks
           ELSE /\ response' = [Response(TRUE, 200) EXCEPT
                                    !.hasTask = TRUE,
                                    !.subtaskId = tasks[tid].subtasks[i].id]
                /\ tasks' = updateSubtaskStatus(tasks, tid,
                                tasks[tid].subtasks[i].id, "IN_PROGRESS",
                                NoResult)
        /\ UNCHANGED planResult

\* A mutant: the test of `subtask` is inverted.
GET_WORKER_TASK_Inverted(tid) ==
    LET i == getNextAvailableSubtask(tasks, tid)
    IN  /\ request' = ClaimRequest(tid)
        /\ response' = IF i # 0 THEN Response(TRUE, 200)
                              ELSE Response(FALSE, 500)
        /\ UNCHANGED <<tasks, planResult>>

\* case 'GET_WORKER_TASK'
GET_WORKER_TASK(tid) ==
    LET i == getNextAvailableSubtask(tasks, tid)
    IN  /\ request' = ClaimRequest(tid)
        /\ response' =
              IF i = 0 THEN Response(TRUE, 200)
              ELSE IF ~HasTask(tasks, tid) THEN Failure(404, "Task not found")
              ELSE [Response(TRUE, 200) EXCEPT
                        !.hasTask = TRUE,
                        !.subtaskId = tasks[tid].subtasks[i].id]
        /\ UNCHANGED <<tasks, planResult>>

\* A mutant: the catch block answers without the update.
ExecuteCatchUnmarked(tid, sid, error, tried) ==
    /\ tasks' = tasks
    /\ response' = [Failure(500, error) EXCEPT !.updates = tried]

\* A mutant: the catch block's answer lacks the status 500.
ExecuteCatchOk(tid, sid, error, tried) ==
    LET known == ~NotFound(tasks, tid, sid)
    IN  /\ tasks' = IF known
                    THEN updateSubtaskStatus(tasks, tid, sid, "FAILED",
                                             Forced(error))
                    ELSE tasks
        /\ response' = [Failure(200, error) EXCEPT
                            !.updates = tried \o
                                <<Update("FAILED", Forced(error), known)>>]

\* A mutant: the catch block puts the subtask back to PENDING.
ExecuteCatchRequeue(tid, sid, error, tried) ==
    LET known == ~NotFound(tasks, tid, sid)
    IN  /\ tasks' = IF known
                    THEN updateSubtaskStatus(tasks, tid, sid, "PENDING",
                                             NoResult)
                    ELSE tasks
        /\ response' = [Failure(500, error) EXCEPT
                            !.updates = tried \o
                                <<Update("PENDING", NoResult, known)>>]

\* catch (error) of case 'EXECUTE_WORKER_TASK', after the calls `tried` of
\* updateSubtaskStatus: the update with FAILED, no steps, the message and
\* retryCount 0 is tried, its own throw (NotFound) is logged, and the answer
\* is the 500 with the message of `error`.
ExecuteCatch(tid, sid, error, tried) ==
    LET known == ~NotFound(tasks, tid, sid)
    IN  /\ tasks' = IF known
                    THEN updateSubtaskStatus(tasks, tid, sid, "FAILED",
                                             Forced(error))
                    ELSE tasks
        /\ response' = [Failure(500, error) EXCEPT
                            !.updates = tried \o
                                <<Update("FAILED", Forced(error), known)>>]

\* A mutant: the status written is not the one the Execution Loop returned.
EXECUTE_WORKER_TASK_InProgress(tid, sid, result) ==
    /\ request' = ExecuteRequest(tid, sid, result)
    /\ IF result = LoopFault
       THEN ExecuteCatch(tid, sid, "LoopFault", <<>>)
       ELSE IF NotFound(tasks, tid, sid)
       THEN ExecuteCatch(tid, sid, "NotFound",
                         <<Update("IN_PROGRESS", result, FALSE)>>)
       ELSE /\ tasks' = updateSubtaskStatus(tasks, tid, sid, "IN_PROGRESS",
                                            result)
            /\ response' = [Response(TRUE, 200) EXCEPT
                                !.result = result,
                                !.updates = <<Update("IN_PROGRESS", result,
                                                     TRUE)>>]
    /\ UNCHANGED planResult

\* A mutant: the NotFound of updateSubtaskStatus is caught and dropped, and
\* the result is answered as if it had been stored.
EXECUTE_WORKER_TASK_Swallowing(tid, sid, result) ==
    /\ request' = ExecuteRequest(tid, sid, result)
    /\ IF result = LoopFault
       THEN ExecuteCatch(tid, sid, "LoopFault", <<>>)
       ELSE IF NotFound(tasks, tid, sid)
       THEN /\ response' = [Response(TRUE, 200) EXCEPT
                                !.result = result,
                                !.updates = <<Update(result.status, result,
                                                     FALSE)>>]
            /\ tasks' = tasks
       ELSE /\ tasks' = updateSubtaskStatus(tasks, tid, sid, result.status,
                                            result)
            /\ response' = [Response(TRUE, 200) EXCEPT
                                !.result = result,
                                !.updates = <<Update(result.status, result,
                                                     TRUE)>>]
    /\ UNCHANGED planResult

\* A mutant: only a DONE result is stored.
EXECUTE_WORKER_TASK_DoneOnly(tid, sid, result) ==
    /\ request' = ExecuteRequest(tid, sid, result)
    /\ IF result = LoopFault
       THEN ExecuteCatch(tid, sid, "LoopFault", <<>>)
       ELSE IF result.status # "DONE"
       THEN /\ response' = [Response(TRUE, 200) EXCEPT !.result = result]
            /\ tasks' = tasks
       ELSE IF NotFound(tasks, tid, sid)
       THEN ExecuteCatch(tid, sid, "NotFound",
                         <<Update(result.status, result, FALSE)>>)
       ELSE /\ tasks' = updateSubtaskStatus(tasks, tid, sid, result.status,
                                            result)
            /\ response' = [Response(TRUE, 200) EXCEPT
                                !.result = result,
                                !.updates = <<Update(result.status, result,
                                                     TRUE)>>]
    /\ UNCHANGED planResult

\* case 'EXECUTE_WORKER_TASK': `result` is what the call of executeSubtask
\* did.  When it returned, updateSubtaskStatus is called with its status and
\* with it, and it is the answer; when that call throws NotFound, or
\* executeSubtask raised, the catch block answers.
EXECUTE_WORKER_TASK(tid, sid, result) ==
    /\ request' = ExecuteRequest(tid, sid, result)
    /\ IF result = LoopFault
       THEN ExecuteCatch(tid, sid, "LoopFault", <<>>)
       ELSE IF NotFound(tasks, tid, sid)
       THEN ExecuteCatch(tid, sid, "NotFound",
                         <<Update(result.status, result, FALSE)>>)
       ELSE /\ tasks' = updateSubtaskStatus(tasks, tid, sid, result.status,
                                            result)
            /\ response' = [Response(TRUE, 200) EXCEPT
                                !.result = result,
                                !.updates = <<Update(result.status, result,
                                                     TRUE)>>]
    /\ UNCHANGED planResult

\* case 'GET_TASK_STATUS'
GET_TASK_STATUS(tid) ==
    /\ request' = [NoRequest EXCEPT !.action = "GET_TASK_STATUS",
                                    !.taskId = tid]
    /\ response' =
          IF ~HasTask(tasks, tid) THEN Failure(404, "Task not found")
          ELSE [Response(TRUE, 200) EXCEPT
                    !.status = tasks[tid].status,
                    !.progress = getTaskProgressById(tasks, tid)]
    /\ UNCHANGED <<tasks, planResult>>

(***************************************************************************)
(* The facade driven by any caller.                                        *)
(***************************************************************************)
Init ==
    /\ tasks = <<>>
    /\ planResult = <<>>
    /\ request = NoRequest
    /\ response = NoResponse
    /\ pc = "plan"
    /\ taskId = NoTaskId
    /\ workerData = 0
    /\ taskCompleted = FALSE
    /\ worker = NoWorker

\* The plans PLAN_TASK admits to the store (as an enumerated set).
AdmittedLLMPlans ==
    UNION {{p} : p \in {q \in LLMPlans :
                            SchemaOk(q) /\ ValidPlan(createTaskPlan(q))}}

\* The plan of n subtasks each of which depends on the next, and the last on
\* the first.
Ring(n) == [i \in 1..n |-> [dependencies |-> {i % n}]]

\* The plans PLAN_TASK rejects: those of at most two subtasks (the empty
\* plan, the subtask that depends on itself, the two that depend on each
\* other, the dependency index out of range) and the longer rings.
RejectedLLMPlans ==
    UNION {{p} : p \in {q \in LLMPlans \ AdmittedLLMPlans : Len(q) <= 2}
                        \cup {Ring(n) : n \in 3..MaxSubtasks}}

PlanTask ==
    /\ TaskIds \ DOMAIN tasks # {}
    /\ \/ PLAN_TASK(<<>>, TRUE)
       \/ \E llmPlan \in AdmittedLLMPlans \cup RejectedLLMPlans :
                PLAN_TASK(llmPlan, FALSE)
    /\ UNCHANGED <<pollVars, worker>>

GetWorkerTask ==
    /\ \E tid \in TaskIds : GET_WORKER_TASK(tid)
    /\ UNCHANGED <<pollVars, worker>>

ExecuteWorkerTask ==
    /\ \E id \in RequestIds, result \in executeSubtask :
            EXECUTE_WORKER_TASK(id[1], id[2], result)
    /\ UNCHANGED <<pollVars, worker>>

GetTaskStatus ==
    /\ \E tid \in TaskIds : GET_TASK_STATUS(tid)
    /\ UNCHANGED <<pollVars, worker>>

Next ==
    \/ PlanTask
    \/ GetWorkerTask
    \/ ExecuteWorkerTask
    \/ GetTaskStatus

Spec == Init /\ [][Next]_vars

(***************************************************************************)
(* The facade with a call of executeSubtask that may raise.                *)
(* EXECUTE_WORKER_TASK reads no dependency: the plans here declare none,   *)
(* and the subtasks are executed in any order.                             *)
(***************************************************************************)
\* The plan of n subtasks without dependencies.
Flat(n) == [i \in 1..n |-> [dependencies |-> {}]]

PlanTaskFlat ==
    /\ TaskIds \ DOMAIN tasks # {}
    /\ \E n \in 1..MaxSubtasks : PLAN_TASK(Flat(n), FALSE)
    /\ UNCHANGED <<pollVars, worker>>

ExecuteWorkerTaskRaised ==
    /\ \E id \in RequestIds : EXECUTE_WORKER_TASK(id[1], id[2], LoopFault)
    /\ UNCHANGED <<pollVars, worker>>

NextRaising ==
    \/ PlanTaskFlat
    \/ ExecuteWorkerTask
    \/ ExecuteWorkerTaskRaised

SpecRaising == Init /\ [][NextRaising]_vars


(***************************************************************************)
(* ChatFeed.tsx: the poll loop of initializeSession, one worker.  A        *)
(* response without success sends the loop to legacyStepExecution (PLAN)   *)
(* or throws into the catch block, which falls back to it too.             *)
(***************************************************************************)
\* fetch PLAN_TASK; `if (!planData.success)` leaves for the legacy flow.
PollPlan ==
    /\ pc = "plan"
    /\ \/ PLAN_TASK(<<>>, TRUE)
       \/ \E llmPlan \in AdmittedLLMPlans \cup RejectedLLMPlans :
                PLAN_TASK(llmPlan, FALSE)
    /\ pc' = IF response'.success THEN "claim" ELSE "legacy"
    /\ taskId' = response'.taskId
    /\ UNCHANGED <<workerData, taskCompleted, worker>>

\* while (!taskCompleted): fetch GET_WORKER_TASK.
PollClaim ==
    /\ pc = "claim"
    /\ ~taskCompleted
    /\ GET_WORKER_TASK(taskId)
    /\ pc' = IF ~response'.success THEN "legacy"
             ELSE IF ~response'.hasTask THEN "status"
             ELSE "execute"
    /\ workerData' = response'.subtaskId
    /\ UNCHANGED <<taskId, taskCompleted, worker>>

\* A mutant: only a DONE task ends the loop.
PollStatusDoneOnly ==
    /\ pc = "status"
    /\ GET_TASK_STATUS(taskId)
    /\ taskCompleted' = (response'.status = "DONE")
    /\ pc' = IF taskCompleted' THEN "done" ELSE "claim"
    /\ UNCHANGED <<taskId, workerData, worker>>

\* `if (!workerData.hasTask)`: fetch GET_TASK_STATUS; a DONE or FAILED task
\* sets taskCompleted; then the 1 s wait and `continue`.
PollStatus ==
    /\ pc = "status"
    /\ GET_TASK_STATUS(taskId)
    /\ taskCompleted' = (response'.status \in {"DONE", "FAILED"})
    /\ pc' = IF taskCompleted' THEN "done" ELSE "claim"
    /\ UNCHANGED <<taskId, workerData, worker>>

\* fetch EXECUTE_WORKER_TASK for the claimed subtask, which runs the
\* Execution Loop to its result (every call of executeSubtask returns here);
\* `if (!executeData.success)` throws.
PollExecute ==
    /\ pc = "execute"
    /\ \E result \in executeSubtask :
            EXECUTE_WORKER_TASK(taskId, workerData, result)
    /\ pc' = IF response'.success THEN "claim" ELSE "legacy"
    /\ UNCHANGED <<taskId, workerData, taskCompleted, worker>>

\* One turn of `while (!taskCompleted)`.
PollLoop ==
    \/ PollClaim
    \/ PollStatus
    \/ PollExecute

NextPoll ==
    \/ PollPlan
    \/ PollLoop

SpecPoll == Init /\ [][NextPoll]_vars

\* The loop is one async function: each fetch it awaits is answered (every
\* execute returns), so a turn of the loop that can be taken is taken.
FairSpecPoll == SpecPoll /\ WF_vars(PollLoop)

\* fetch EXECUTE_WORKER_TASK for the claimed subtask when executeSubtask
\* raises: the answer is the 500 and `if (!executeData.success)` throws.
PollExecuteRaised ==
    /\ pc = "execute"
    /\ EXECUTE_WORKER_TASK(taskId, workerData, LoopFault)
    /\ pc' = IF response'.success THEN "claim" ELSE "legacy"
    /\ UNCHANGED <<taskId, workerData, taskCompleted, worker>>

NextPollRaising ==
    \/ PollPlan
    \/ PollLoop
    \/ PollExecuteRaised

\* The poll loop with an Execution Loop that may raise.
SpecPollRaising == Init /\ [][NextPollRaising]_vars

(***************************************************************************)
(* worker: one call of executeSubtask.                                     *)
(***************************************************************************)
\* The call, with maxRetries one of `retries`, the extraction of a prior
\* subtask one of `priors` and the initial SCREENSHOT doing one of `shots`:
\* the locals are set, the location is 'unknown', the initial screenshot is
\* tried (null when it raises), and the while loop is entered.
Start(retries, priors, shots) ==
    /\ worker.state = "STARTING"
    /\ \E maxRetries \in retries, prior \in priors, shot \in shots :
            worker' = [worker EXCEPT
                            !.state = "LOOPING",
                            !.maxRetries = maxRetries,
                            !.previousExtraction = prior,
                            !.currentScreenshot = IF shot = "data"
                                                  THEN "shot" ELSE "null",
                            !.refresh = [url |-> "none", screenshot |-> shot]]
    /\ UNCHANGED <<facadeVars, pollVars>>

ExecuteSubtaskStart == Start(1..MaxRetries, {"null"}, {"data"})

\* One turn of while (!isSubtaskComplete) { try { ... } catch (error)
\* { ... } }, with the worker LLM doing one of `answers`, executeStep one
\* of `outcomes` with the step and the best-effort calls one of `refreshes`.
Iteration(answers, outcomes, refreshes) ==
    /\ worker.state = "LOOPING"
    /\ LET w == [worker EXCEPT !.iterations = @ + 1]
       IN  IF MaxStepsReached(w.steps)
           THEN worker' = Return([w EXCEPT !.acted = FALSE,
                                           !.faulted = FALSE,
                                           !.closed = FALSE,
                                           !.extracted = "none",
                                           !.refresh = NoRefresh], "FAILED",
                                 "Exceeded maximum number of steps (15)")
           ELSE \E llm \in answers, refresh \in refreshes :
                    \E outcome \in OutcomesOf(w.recentActionHistory,
                                               getNextStep(llm), outcomes) :
                        worker' = Refresh(Turn(w, llm, outcome), outcome,
                                          refresh)
    /\ UNCHANGED <<facadeVars, pollVars>>

LoopIteration == Iteration(LLMAnswers, ActuatorOutcomes, {RefreshOk})

\* The catch of the function's outer try, for a fault raised outside the
\* loop's own try: the FAIL step is pushed and the run fails.
OuterCatch ==
    /\ worker.state = "LOOPING"
    /\ worker' = Return(Push(worker, "FAIL"), "FAILED", "fatal")
    /\ UNCHANGED <<facadeVars, pollVars>>

NextLoop ==
    \/ ExecuteSubtaskStart
    \/ LoopIteration
    \/ OuterCatch

SpecLoop == Init /\ [][NextLoop]_vars

\* Every call the loop awaits returns or raises.
FairSpecLoop == SpecLoop /\ WF_vars(NextLoop)

(***************************************************************************)
(* worker: one call of executeSubtask whose worker LLM raises at every     *)
(* turn, with any maxRetries up to MaxFaultRetries; no fault but the       *)
(* LLM's and the actuator's.                                               *)
(***************************************************************************)
ExecuteSubtaskStartAny == Start(1..MaxFaultRetries, {"null"}, {"data"})

LoopIterationOracleFault ==
    Iteration({LLMFault}, ActuatorOutcomes, {RefreshOk})

NextOracleFault ==
    \/ ExecuteSubtaskStartAny
    \/ LoopIterationOracleFault

SpecOracleFault == Init /\ [][NextOracleFault]_vars

\* The run with best-effort calls that may raise: the worker LLM navigates,
\* fails to answer (the fallback SCREENSHOT step) or ends the run.
RefreshAnswers ==
    {LLMFault}
        \cup [tool : {"GOTO", "DONE"}, instruction : {1}, completion : {FALSE}]

ExecuteSubtaskStartRefresh == Start(1..MaxRetries, {"null"}, {"data", "fault"})

LoopIterationRefresh == Iteration(RefreshAnswers, ActuatorOutcomes, Refreshes)

NextRefresh ==
    \/ ExecuteSubtaskStartRefresh
    \/ LoopIterationRefresh

SpecRefresh == Init /\ [][NextRefresh]_vars

\* The run with a prior subtask's extraction or none and with EXTRACT steps
\* that return different data.
ExtractAnswers ==
    [tool : {"EXTRACT", "ACT", "DONE"}, instruction : {1}, completion : {FALSE}]

ExecuteSubtaskStartExtract == Start(1..MaxRetries, {"null", "prior"}, {"data"})

LoopIterationExtract == Iteration(ExtractAnswers, ExtractOutcomes, {RefreshOk})

NextExtract ==
    \/ ExecuteSubtaskStartExtract
    \/ LoopIterationExtract

SpecExtract == Init /\ [][NextExtract]_vars

(***************************************************************************)
(* Properties.                                                             *)
(***************************************************************************)
\* The last request was a claim that handed out a subtask.
Claimed == request.action = "GET_WORKER_TASK" /\ response.hasTask

\* A step that serves a claim for tid.
ClaimStep(tid) ==
    /\ request'.action = "GET_WORKER_TASK"
    /\ request'.taskId = tid
    /\ HasTask(tasks, tid)

Statuses(tid) == [i \in 1..Len(tasks[tid].subtasks) |->
                    tasks[tid].subtasks[i].status]

\* The positions of the plan that are PENDING with every declared dependency
\* index DONE, read off the LLM's plan and the subtasks' statuses.
PlanEligible(tid) ==
    {p \in 1..Len(planResult) :
        /\ Statuses(tid)[p] = "PENDING"
        /\ \A d \in planResult[p].dependencies :
              d + 1 \in 1..Len(planResult) /\ Statuses(tid)[d + 1] = "DONE"}

InProgress(tid) ==
    {i \in 1..Len(tasks[tid].subtasks) : Statuses(tid)[i] = "IN_PROGRESS"}

\* C1: a claim never hands out a subtask that is not PENDING or that has a
\* dependency that is not DONE: for every dependency edge d -> s the plan
\* declares, d is DONE when s is handed to a worker.
C1Theorem ==
    Claimed =>
        LET subtasks == tasks[request.taskId].subtasks
            s == IndexOfId(subtasks, response.subtaskId)
        IN  /\ s # 0
            /\ subtasks[s].status = "PENDING"
            /\ \A d \in subtasks[s].dependencies :
                  \E j \in 1..Len(subtasks) :
                      subtasks[j].id = d /\ subtasks[j].status = "DONE"
            /\ \A d \in planResult[s].dependencies :
                  d + 1 \in 1..Len(subtasks) /\ subtasks[d + 1].status = "DONE"

\* A subtask with two dependencies is handed out.
C1Witness ==
    /\ Claimed
    /\ \E s \in 1..Len(planResult) :
          /\ tasks[request.taskId].subtasks[s].id = response.subtaskId
          /\ Cardinality(planResult[s].dependencies) = 2

\* C2: when some subtask of the task is PENDING with all its dependencies
\* DONE, the claim served next answers with a subtask, itself eligible, and
\* not with "none".
C2Theorem ==
    [][\A tid \in TaskIds :
          (ClaimStep(tid) /\ PlanEligible(tid) # {}) =>
              /\ response'.success
              /\ response'.hasTask
              /\ \E p \in PlanEligible(tid) :
                    tasks[tid].subtasks[p].id = response'.subtaskId]_vars

\* A claim is answered with a subtask that became eligible only when its
\* dependency was reported DONE.
C2Witness ==
    /\ Claimed
    /\ \E s \in 1..Len(planResult) :
          /\ tasks[request.taskId].subtasks[s].id = response.subtaskId
          /\ planResult[s].dependencies # {}
          /\ s \in PlanEligible(request.taskId)

\* C3: of several eligible subtasks a claim returns the one lowest in plan
\* order, whose id is subtask-(index + 1), whatever their depth in the graph.
C3Theorem ==
    [][\A tid \in TaskIds :
          (ClaimStep(tid) /\ PlanEligible(tid) # {}) =>
              \E p \in PlanEligible(tid) :
                  /\ \A q \in PlanEligible(tid) : p <= q
                  /\ response'.subtaskId = SubtaskId(p - 1)]_vars

\* The plan is A, B (after A), C (after A); A is DONE, B and C are both
\* eligible, and the claim returned B.
C3Witness ==
    /\ Claimed
    /\ planResult = <<[dependencies |-> {}], [dependencies |-> {0}],
                      [dependencies |-> {0}]>>
    /\ Statuses(request.taskId) = <<"DONE", "PENDING", "PENDING">>
    /\ response.subtaskId = 2

\* C4: Task.status is DONE exactly when every subtask of the task is DONE.
C4Theorem ==
    \A tid \in DOMAIN tasks :
        tasks[tid].status = "DONE" <=>
            \A i \in 1..Len(tasks[tid].subtasks) : Statuses(tid)[i] = "DONE"

\* An execute reported the last of several subtasks DONE.
C4Witness ==
    /\ request.action = "EXECUTE_WORKER_TASK"
    /\ response.success
    /\ Len(tasks[request.taskId].subtasks) >= 2
    /\ tasks[request.taskId].status = "DONE"

\* C5: Task.status is FAILED exactly when some subtask is FAILED and the task
\* has stopped dispatching: no subtask is eligible and none is IN_PROGRESS.
C5Theorem ==
    \A tid \in DOMAIN tasks :
        tasks[tid].status = "FAILED" <=>
            /\ \E i \in 1..Len(tasks[tid].subtasks) : Statuses(tid)[i] = "FAILED"
            /\ PlanEligible(tid) = {}
            /\ InProgress(tid) = {}

\* A subtask FAILED and its dependent, which can never become eligible, is
\* still PENDING: the task is FAILED.
C5Witness ==
    /\ request.action = "EXECUTE_WORKER_TASK"
    /\ response.success
    /\ tasks[request.taskId].status = "FAILED"
    /\ \E i \in 1..Len(planResult) : Statuses(request.taskId)[i] = "PENDING"

\* C6: the single worker's poll loop, once it has a plan, ends, and ends with
\* Task.status DONE or FAILED.
C6Theorem ==
    (pc = "claim") ~>
        (pc = "done" /\ taskCompleted
            /\ tasks[taskId].status \in {"DONE", "FAILED"})

\* The loop has ended on a FAILED task one of whose subtasks, a dependent of
\* the FAILED one, was never eligible.
C6Witness ==
    /\ pc = "done"
    /\ tasks[taskId].status = "FAILED"
    /\ \E i \in 1..Len(planResult) : Statuses(taskId)[i] = "PENDING"

\* C7: a subtask's status moves only PENDING -> IN_PROGRESS -> DONE or
\* FAILED: it never returns to PENDING, and DONE and FAILED are final.
C7Claim ==
    [][\A tid \in DOMAIN tasks :
          \A i \in 1..Len(tasks[tid].subtasks) :
              \/ tasks'[tid].subtasks[i].status = Statuses(tid)[i]
              \/ <<Statuses(tid)[i], tasks'[tid].subtasks[i].status>> \in
                    { <<"PENDING", "IN_PROGRESS">>,
                      <<"IN_PROGRESS", "DONE">>,
                      <<"IN_PROGRESS", "FAILED">> }]_vars

\* C8: the subtask a claim returns is IN_PROGRESS afterwards.
C8Claim ==
    Claimed =>
        \E i \in 1..Len(tasks[request.taskId].subtasks) :
            /\ tasks[request.taskId].subtasks[i].id = response.subtaskId
            /\ Statuses(request.taskId)[i] = "IN_PROGRESS"

C10Theorem ==
    [][(/\ request.action = "GET_WORKER_TASK"
        /\ request'.action = "GET_WORKER_TASK"
        /\ request'.taskId = request.taskId) =>
            /\ tasks' = tasks
            /\ response' = response]_vars

\* The second of two claims in a row has been served, with two subtasks
\* eligible.
C10Witness ==
    /\ Claimed
    /\ request.repeated
    /\ Cardinality(PlanEligible(request.taskId)) >= 2

\* The dependency indices of the plan that are indices of its subtasks.
InRange(llmPlan, i) == llmPlan[i].dependencies \cap 0..(Len(llmPlan) - 1)

\* Some subtask declares a dependency index outside 0..n-1.
OutOfRange(llmPlan) ==
    \E i \in 1..Len(llmPlan) : llmPlan[i].dependencies # InRange(llmPlan, i)

\* The positions S together with all they depend on, directly or not.
RECURSIVE Ancestors(_, _)
Ancestors(llmPlan, S) ==
    LET more == S \cup UNION {{d + 1 : d \in InRange(llmPlan, i)} : i \in S}
    IN  IF more = S THEN S ELSE Ancestors(llmPlan, more)

\* Some subtask depends, directly or not, on itself.
HasCycle(llmPlan) ==
    \E i \in 1..Len(llmPlan) :
        i \in Ancestors(llmPlan, {d + 1 : d \in InRange(llmPlan, i)})

\* C11: a PLAN_TASK whose plan holds a dependency cycle (a subtask depending
\* on itself, two depending on each other, a longer ring) is answered with
\* the InvalidPlan failure of createTask, and the Task Store is left as it
\* was: no Task is admitted.
C11Theorem ==
    [][(request'.action = "PLAN_TASK" /\ HasCycle(request'.plan)) =>
            /\ ~response'.success
            /\ response'.error = "InvalidPlan"
            /\ tasks' = tasks]_vars

\* The plan in which subtask 0 depends on 1 and 1 on 0 has been rejected.
C11Witness ==
    /\ request.action = "PLAN_TASK"
    /\ request.plan = <<[dependencies |-> {1}], [dependencies |-> {0}]>>
    /\ response.error = "InvalidPlan"
    /\ tasks = <<>>

\* C12: a PLAN_TASK whose plan declares a dependency index outside 0..n-1 is
\* answered with the InvalidPlan failure of createTask, and no Task whose
\* subtask depends on an id that names no subtask is admitted.
C12Theorem ==
    [][(request'.action = "PLAN_TASK" /\ OutOfRange(request'.plan)) =>
            /\ ~response'.success
            /\ response'.error = "InvalidPlan"
            /\ tasks' = tasks]_vars

\* A plan of two subtasks without a cycle, the second of which depends on
\* index 2, has been rejected.
C12Witness ==
    /\ request.action = "PLAN_TASK"
    /\ request.plan = <<[dependencies |-> {}], [dependencies |-> {0, 2}]>>
    /\ ~HasCycle(request.plan)
    /\ response.error = "InvalidPlan"

\* C13: a PLAN_TASK whose plan has at least one subtask, dependency indices
\* in range only and no cycle admits a new Task whose subtasks are those of
\* the plan in plan order, with the ids subtask-1 .. subtask-n, the
\* dependencies resolved to ids, and every status PENDING.
C13Theorem ==
    [][(/\ request'.action = "PLAN_TASK"
        /\ Len(request'.plan) >= 1
        /\ ~OutOfRange(request'.plan)
        /\ ~HasCycle(request'.plan)
        /\ response'.error # "Planning agent failed") =>
            /\ response'.success
            /\ response'.taskId \notin DOMAIN tasks
            /\ response'.taskId \in DOMAIN tasks'
            /\ LET subtasks == tasks'[response'.taskId].subtasks
               IN  /\ Len(subtasks) = Len(request'.plan)
                   /\ \A i \in 1..Len(subtasks) :
                        /\ subtasks[i].id = i
                        /\ subtasks[i].status = "PENDING"
                        /\ subtasks[i].dependencies =
                              {d + 1 : d \in request'.plan[i].dependencies}]_vars

\* A plan of three subtasks, the third after the first two, has been admitted.
C13Witness ==
    /\ request.action = "PLAN_TASK"
    /\ response.success
    /\ request.plan = <<[dependencies |-> {}], [dependencies |-> {0}],
                        [dependencies |-> {0, 1}]>>
    /\ Statuses(response.taskId) = <<"PENDING", "PENDING", "PENDING">>

\* C14: an EXECUTE_WORKER_TASK that reports, for the same subtask, the same
\* terminal status and result as the one served just before it leaves the
\* Task Store as the first left it: the subtask's status and result and
\* Task.status are those of one application.
C14Theorem ==
    [][(/\ request'.action = "EXECUTE_WORKER_TASK"
        /\ request'.repeated
        /\ response'.success) =>
            /\ response'.result.status \in {"DONE", "FAILED"}
            /\ tasks' = tasks]_vars

\* The same FAILED result has been stored twice in a row for a subtask of a
\* task with more subtasks.
C14Witness ==
    /\ request.action = "EXECUTE_WORKER_TASK"
    /\ request.repeated
    /\ response.success
    /\ response.result.status = "FAILED"
    /\ Len(tasks[request.taskId].subtasks) >= 2
    /\ tasks[request.taskId].status = "FAILED"

IterationStep == worker'.iterations = worker.iterations + 1

\* C16: every turn of the while loop returns, appends a step or increments
\* the retry counter; a call takes at most MAX_STEPS + maxRetries turns;
\* what it returns has status DONE or FAILED (FAILED from the outer catch);
\* and, whatever the worker LLM and the actuator return or raise, the call
\* returns.
C16Theorem ==
    /\ [][IterationStep =>
            \/ worker'.state = "RETURNED"
            \/ worker'.steps > worker.steps
            \/ worker'.retryCount > worker.retryCount]_vars
    /\ [](/\ worker.iterations <= MAX_STEPS + worker.maxRetries
          /\ worker.state = "RETURNED" =>
                /\ worker.result.status \in {"DONE", "FAILED"}
                /\ worker.result.error = "fatal" =>
                        worker.result.status = "FAILED")
    /\ (worker.state = "LOOPING") ~> (worker.state = "RETURNED")

\* A call has returned from its last possible turn, after MAX_STEPS steps
\* and with the retry counter one short of maxRetries.
C16Witness ==
    /\ worker.state = "RETURNED"
    /\ worker.maxRetries = MaxRetries
    /\ worker.iterations = MAX_STEPS + 1
    /\ worker.result.retryCount = MaxRetries - 1
    /\ worker.result.status = "FAILED"

\* The error of the step ceiling.
Exceeded == "Exceeded maximum number of steps (15)"

\* C17: a turn that finds MAX_STEPS steps recorded returns FAILED with the
\* "exceeded maximum steps" error, whatever the retry counter; and a call in
\* which every answer was a non-terminal step that was no repetition and
\* that the actuator carried out returns in no other way: FAILED with
\* exactly 15 steps recorded, from its 16th turn.
C17Theorem ==
    [][IterationStep =>
        /\ worker.steps >= MAX_STEPS =>
              /\ worker'.state = "RETURNED"
              /\ worker'.result.status = "FAILED"
              /\ worker'.result.error = Exceeded
              /\ worker'.result.steps = MAX_STEPS
              /\ worker'.result.retryCount = worker.retryCount
        /\ (/\ worker'.state = "RETURNED"
            /\ worker'.retryCount = 0
            /\ worker'.nextStep.tool \notin TerminalTools
            /\ ~worker'.nextStep.completion) =>
              /\ worker'.result.status = "FAILED"
              /\ worker'.result.error = Exceeded
              /\ worker'.result.steps = MAX_STEPS
              /\ worker'.iterations = MAX_STEPS + 1]_vars

\* A call without a retry and without a pause has ended at the ceiling.
C17Witness ==
    /\ worker.state = "RETURNED"
    /\ worker.result.error = Exceeded
    /\ worker.result.status = "FAILED"
    /\ worker.result.steps = MAX_STEPS
    /\ worker.result.retryCount = 0
    /\ worker.pauses = 0

\* Every answer of the call so far was the same non-terminal (tool,
\* instruction).
Same(w) ==
    /\ w.iterations >= 1
    /\ Len(w.recentActionHistory) = w.iterations
    /\ \A i \in 1..Len(w.recentActionHistory) :
          w.recentActionHistory[i] = Action(w.nextStep)

\* The last three answers were the same (tool, instruction).
ThreeInARow(history) ==
    /\ Len(history) >= 3
    /\ history[Len(history)] = history[Len(history) - 1]
    /\ history[Len(history)] = history[Len(history) - 2]

C19Theorem ==
    worker.state # "STARTING" => worker.pauses <= worker.maxRetries

\* A call has paused on two repetitions and failed on the third, with steps
\* carried out in between.
C19Witness ==
    /\ worker.state = "RETURNED"
    /\ worker.pauses = MaxRetries - 1
    /\ worker.result.error = "repeating"
    /\ worker.result.retryCount = MaxRetries
    /\ worker.iterations > MAX_HISTORY + MaxRetries

\* C20: a turn whose step has the tool DONE appends the step and returns
\* DONE with the extraction gathered so far, without a call of executeStep;
\* from the first turn, one step is recorded.
C20Theorem ==
    [][(/\ IterationStep
        /\ worker.steps < MAX_STEPS
        /\ worker'.nextStep.tool = "DONE") =>
            /\ worker'.state = "RETURNED"
            /\ worker'.steps = worker.steps + 1
            /\ worker'.lastStep = "DONE"
            /\ ~worker'.acted
            /\ worker'.result.status = "DONE"
            /\ worker'.result.steps = worker.steps + 1
            /\ worker'.result.extraction = worker.extraction
            /\ worker'.result.retryCount = worker.retryCount
            /\ worker.iterations = 0 => worker'.result.steps = 1]_vars

\* A DONE step has ended a call that had extracted data.
C20Witness ==
    /\ worker.state = "RETURNED"
    /\ worker.nextStep.tool = "DONE"
    /\ worker.result.status = "DONE"
    /\ worker.result.extraction = "data"
    /\ worker.result.steps >= 2

\* A turn of the while loop that asks the worker LLM for a step.
Asked == IterationStep /\ worker.steps < MAX_STEPS

\* C21, as stated: a turn in which the worker LLM answers with the tool FAIL
\* appends the step and returns FAILED with the step's instruction as the
\* error, whatever its text and reasoning say.
C21Claim ==
    [][(Asked /\ worker'.answer.tool = "FAIL") =>
            /\ worker'.state = "RETURNED"
            /\ worker'.steps = worker.steps + 1
            /\ worker'.lastStep = "FAIL"
            /\ worker'.result.status = "FAILED"
            /\ worker'.result.error
                    = InstructionText(worker'.answer.instruction)]_vars

\* C22: a turn in which the worker LLM speaks of completion without the
\* tool DONE records one step, a DONE step made in its place, and returns
\* DONE; executeStep is not called and no Stagehand is closed.
C22Theorem ==
    [][(/\ Asked
        /\ worker'.answer.completion
        /\ worker'.answer.tool # "DONE") =>
            /\ worker'.state = "RETURNED"
            /\ worker'.nextStep.tool = "DONE"
            /\ worker'.steps = worker.steps + 1
            /\ worker'.lastStep = "DONE"
            /\ worker'.result.status = "DONE"
            /\ worker'.result.steps = worker.steps + 1
            /\ ~worker'.acted
            /\ ~worker'.closed]_vars

\* An ACT answer that spoke of completion has ended a call DONE, after steps
\* that were carried out.
C22Witness ==
    /\ worker.state = "RETURNED"
    /\ worker.answer.tool = "ACT"
    /\ worker.answer.completion
    /\ worker.lastStep = "DONE"
    /\ worker.result.status = "DONE"
    /\ worker.result.steps >= 3

C24Claim ==
    [][(IterationStep /\ worker'.faulted) =>
            /\ worker'.steps = worker.steps
            /\ worker'.lastStep = worker.lastStep]_vars

\* C24, amended: a turn in which executeStep raises leaves the step list
\* with the step that raised, pushed before it was executed, as its only new
\* step below maxRetries; at maxRetries the FAIL step that carries the
\* fault's message is pushed after it.
C24Theorem ==
    [][(IterationStep /\ worker'.faulted) =>
            IF worker'.state = "RETURNED"
            THEN /\ worker'.steps = worker.steps + 2
                 /\ worker'.lastStep = "FAIL"
                 /\ worker'.result.steps = worker.steps + 2
            ELSE /\ worker'.steps = worker.steps + 1
                 /\ worker'.lastStep = worker'.nextStep.tool]_vars

\* A call has ended on its second fault with the two steps that raised and
\* the FAIL step as its step list.
C24Witness ==
    /\ worker.state = "RETURNED"
    /\ worker.faulted
    /\ worker.maxRetries = 2
    /\ worker.lastStep = "FAIL"
    /\ worker.result.retryCount = 2
    /\ worker.result.steps = 3

\* The step getNextStep falls back to.
Fallback == [tool |-> "SCREENSHOT", instruction |-> 0, completion |-> FALSE]

\* C25, as stated: with a worker LLM that raises at every turn, a call
\* returns only with the retry counter at maxRetries, whatever maxRetries.
C25Claim ==
    worker.state = "RETURNED" =>
        worker.result.retryCount >= worker.maxRetries

\* C25, amended: a turn in which the worker LLM raises goes on with the
\* fallback SCREENSHOT step and returns only FAILED with the retry counter
\* at maxRetries; with a worker LLM that raises at every turn, a call with
\* maxRetries of MAX_STEPS - 2 or less returns in no other way, and a call
\* with a larger maxRetries returns that way or FAILED from the step
\* ceiling.
C25Theorem ==
    /\ [][Asked =>
            /\ worker'.answer = LLMFault
            /\ worker'.nextStep = Fallback
            /\ worker'.state = "RETURNED" =>
                    /\ worker'.result.status = "FAILED"
                    /\ worker'.result.retryCount = worker.maxRetries]_vars
    /\ [](worker.state = "RETURNED" =>
            /\ worker.result.status = "FAILED"
            /\ \/ /\ worker.result.retryCount = worker.maxRetries
                  /\ worker.result.error \in {"repeating", "fault"}
               \/ /\ worker.maxRetries > MAX_STEPS - 2
                  /\ worker.result.retryCount < worker.maxRetries
                  /\ worker.result.error = Exceeded
                  /\ worker.result.steps = MAX_STEPS)

\* With maxRetries MAX_STEPS - 2 and every fallback step carried out or
\* detected as a repetition, the call has failed at the retry ceiling, one
\* step short of the step ceiling.
C25Witness ==
    /\ worker.state = "RETURNED"
    /\ worker.answer = LLMFault
    /\ worker.maxRetries = MAX_STEPS - 2
    /\ worker.result.error = "repeating"
    /\ worker.result.retryCount = MAX_STEPS - 2
    /\ worker.result.steps = MAX_STEPS - 1

\* C26: executeStep is never called with a DONE, FAIL or CLOSE step; a turn
\* in which the worker LLM answers CLOSE ends with a DONE step of the loop's
\* own and returns DONE.
C26Theorem ==
    /\ [](worker.acted => worker.nextStep.tool \notin TerminalTools)
    /\ [][(Asked /\ worker'.answer.tool \in TerminalTools) =>
            /\ ~worker'.acted
            /\ worker'.state = "RETURNED"]_vars
    /\ [][(Asked /\ worker'.answer.tool = "CLOSE") =>
            /\ worker'.lastStep = "DONE"
            /\ worker'.result.status = "DONE"
            /\ worker'.result.extraction = worker.extraction]_vars

\* A CLOSE answer without completion language has ended a call DONE: the
\* CLOSE step and the DONE step follow a step that was carried out.
C26Witness ==
    /\ worker.state = "RETURNED"
    /\ worker.answer.tool = "CLOSE"
    /\ ~worker.answer.completion
    /\ worker.nextStep.tool = "CLOSE"
    /\ worker.lastStep = "DONE"
    /\ worker.result.status = "DONE"
    /\ worker.result.steps = 3

\* C27: no turn of a call closes the Stagehand of the task's session.
C27Claim == ~worker.closed

\* The subtask sid of task tid, as the store holds it.
Stored(store, tid, sid) ==
    store[tid].subtasks[IndexOfId(store[tid].subtasks, sid)]

\* C28: every EXECUTE_WORKER_TASK calls updateSubtaskStatus before it
\* answers, and with no status but DONE or FAILED; when executeSubtask
\* returned, the first call carries its status and its result; and the
\* subtask of a call that stored is left with the status and the result of
\* that call.
C28Theorem ==
    [][request'.action = "EXECUTE_WORKER_TASK" =>
        LET updates == response'.updates
            last == updates[Len(updates)]
        IN  /\ Len(updates) >= 1
            /\ \A i \in 1..Len(updates) :
                    updates[i].status \in {"DONE", "FAILED"}
            /\ request'.result # LoopFault =>
                    /\ updates[1].status = request'.result.status
                    /\ updates[1].result = request'.result
            /\ last.stored =>
                    /\ Stored(tasks', request'.taskId,
                              request'.subtaskId).status = last.status
                    /\ Stored(tasks', request'.taskId,
                              request'.subtaskId).result = last.result]_vars

\* A FAILED result of the loop was stored for the second subtask of a task
\* after the DONE one of the first.
C28Witness ==
    /\ request.action = "EXECUTE_WORKER_TASK"
    /\ response.success
    /\ response.updates =
            <<Update("FAILED", request.result, TRUE)>>
    /\ request.subtaskId = 2
    /\ Statuses(request.taskId)[1] = "DONE"
    /\ Statuses(request.taskId)[2] = "FAILED"

\* C29: an EXECUTE_WORKER_TASK whose call of executeSubtask raised calls
\* updateSubtaskStatus once, with FAILED and a result of retry count 0, no
\* steps and the fault's message; a subtask the store holds is left with
\* them, and when the call throws NotFound the store is left as it was; in
\* both cases the answer is the 500 with the message of the loop's fault.
C29Theorem ==
    [][(/\ request'.action = "EXECUTE_WORKER_TASK"
        /\ request'.result = LoopFault) =>
        LET known == ~NotFound(tasks, request'.taskId, request'.subtaskId)
            forced == [status |-> "FAILED", error |-> "LoopFault",
                       steps |-> 0, retryCount |-> 0]
        IN  /\ response'.updates = <<Update("FAILED", forced, known)>>
            /\ ~response'.success
            /\ response'.http = 500
            /\ response'.error = "LoopFault"
            /\ IF known
               THEN /\ Stored(tasks', request'.taskId,
                              request'.subtaskId).status = "FAILED"
                    /\ Stored(tasks', request'.taskId,
                              request'.subtaskId).result = forced
                    /\ \A i \in 1..Len(tasks[request'.taskId].subtasks) :
                          tasks[request'.taskId].subtasks[i].id
                                # request'.subtaskId =>
                            tasks'[request'.taskId].subtasks[i] =
                                tasks[request'.taskId].subtasks[i]
               ELSE tasks' = tasks]_vars

\* The loop raised for a subtask of the store's task, which holds FAILED
\* with retry count 0 and no steps for it, next to a subtask that is DONE.
C29Witness ==
    /\ request.action = "EXECUTE_WORKER_TASK"
    /\ request.result = LoopFault
    /\ ~NotFound(tasks, request.taskId, request.subtaskId)
    /\ Stored(tasks, request.taskId, request.subtaskId).result.retryCount = 0
    /\ Stored(tasks, request.taskId, request.subtaskId).result.steps = 0
    /\ Stored(tasks, request.taskId, request.subtaskId).result.error
            = "LoopFault"
    /\ \E i \in 1..Len(tasks[request.taskId].subtasks) :
            Statuses(request.taskId)[i] = "DONE"

\* C30, as stated: an EXECUTE_WORKER_TASK whose call of executeSubtask
\* returned a result and whose updateSubtaskStatus threw answers with that
\* result, as a success, and leaves the store as it was.
C30Claim ==
    [][(/\ request'.action = "EXECUTE_WORKER_TASK"
        /\ request'.result # LoopFault
        /\ ~response'.updates[1].stored) =>
            /\ response'.success
            /\ response'.result = request'.result
            /\ tasks' = tasks]_vars

\* C30, amended: an EXECUTE_WORKER_TASK whose call of executeSubtask
\* returned a result and whose updateSubtaskStatus threw answers with the 500
\* that carries the message of that throw, and not with the result; its catch
\* block calls updateSubtaskStatus with FAILED, which throws again and is
\* dropped, and the store is left as it was.
C30Theorem ==
    [][(/\ request'.action = "EXECUTE_WORKER_TASK"
        /\ request'.result # LoopFault
        /\ ~response'.updates[1].stored) =>
            /\ ~response'.success
            /\ response'.http = 500
            /\ response'.error = "NotFound"
            /\ response'.result = NoResult
            /\ Len(response'.updates) = 2
            /\ response'.updates[2].status = "FAILED"
            /\ response'.updates[2].result.retryCount = 0
            /\ ~response'.updates[2].stored
            /\ tasks' = tasks]_vars

\* The loop returned DONE for a subtask id the store's task does not hold:
\* the answer is a failure after two calls that threw.
C30Witness ==
    /\ request.action = "EXECUTE_WORKER_TASK"
    /\ request.result.status = "DONE"
    /\ HasTask(tasks, request.taskId)
    /\ ~response.success
    /\ Len(response.updates) = 2
    /\ ~response.updates[1].stored
    /\ ~response.updates[2].stored

\* C31, as stated: GET_WORKER_TASK answers "no task available" (success
\* with hasTask false) exactly when the store holds the task and none of its
\* subtasks is eligible; for a task id the store does not hold the answer is
\* an error.
C31Claim ==
    request.action = "GET_WORKER_TASK" =>
        ((response.success /\ ~response.hasTask)
            <=> (/\ HasTask(tasks, request.taskId)
                 /\ Eligible(tasks[request.taskId].subtasks) = {}))

\* C32, as stated: a FAILED result executeSubtask returns carries an error
\* string that is not empty.
C32Claim ==
    (worker.state = "RETURNED" /\ worker.result.status = "FAILED") =>
        worker.result.error # ""

\* How often the pair of a step is in a history.
Occurrences(history, step) ==
    Cardinality({i \in 1..Len(history) : history[i] = Action(step)})

\* The last n elements of a sequence, all of them when it has fewer.
Last(s, n) == IF Len(s) > n THEN SubSeq(s, Len(s) - n + 1, Len(s)) ELSE s

\* A turn whose step was taken for a repetition: it was not executed, and
\* the retry counter went up.
Repetition ==
    /\ Asked
    /\ ~worker'.acted
    /\ worker'.retryCount = worker.retryCount + 1

\* C33: the history of pairs is never longer than MAX_HISTORY; a step that
\* is neither DONE nor FAIL is taken for a repetition exactly when its pair
\* is MAX_DUPLICATES times or more in the history recorded before it, and
\* while the run goes on the history after it is the last MAX_HISTORY of the
\* pairs before it followed by its own, so that an older pair is not
\* counted.
C33Theorem ==
    [][(Asked /\ worker'.nextStep.tool \notin {"DONE", "FAIL"}) =>
            /\ Len(worker.recentActionHistory) <= MAX_HISTORY
            /\ Repetition <=>
                    Occurrences(worker.recentActionHistory, worker'.nextStep)
                        >= 2
            /\ worker'.state = "LOOPING" =>
                    worker'.recentActionHistory
                        = Last(Append(worker.recentActionHistory,
                                      Action(worker'.nextStep)), 5)]_vars

\* A repetition was found in a full history that had already shifted a
\* pair out.
C33Witness ==
    /\ worker.state = "LOOPING"
    /\ worker.lastStep = "WAIT"
    /\ ~worker.acted
    /\ worker.iterations > MAX_HISTORY
    /\ Len(worker.recentActionHistory) = MAX_HISTORY
    /\ Occurrences(worker.recentActionHistory, worker.nextStep) >= 3

\* A turn whose step, neither DONE nor FAIL, has its pair MAX_DUPLICATES
\* times or more in the history.
Detected ==
    /\ Asked
    /\ worker'.nextStep.tool \notin {"DONE", "FAIL"}
    /\ Occurrences(worker.recentActionHistory, worker'.nextStep)
            >= MAX_DUPLICATES

\* C34: a step detected as a repetition is not passed to executeStep and is
\* not pushed.  Below maxRetries the turn pushes one step, the WAIT step,
\* and the loop goes on; at maxRetries the call returns FAILED with the
\* error of the repeated action and the steps it had before the turn.
C34Theorem ==
    [][Detected =>
            /\ ~worker'.acted
            /\ worker'.retryCount = worker.retryCount + 1
            /\ IF worker'.retryCount < worker.maxRetries
               THEN /\ worker'.state = "LOOPING"
                    /\ worker'.steps = worker.steps + 1
                    /\ worker'.lastStep = "WAIT"
               ELSE /\ worker'.state = "RETURNED"
                    /\ worker'.result.status = "FAILED"
                    /\ worker'.result.error = "repeating"
                    /\ worker'.steps = worker.steps
                    /\ worker'.lastStep = worker.lastStep
                    /\ worker'.result.steps = worker.steps]_vars

\* A run paused once for a repetition and failed on the next one, with the
\* steps it had.
C34Witness ==
    /\ worker.state = "RETURNED"
    /\ worker.result.error = "repeating"
    /\ worker.pauses >= 1
    /\ worker.lastStep = "WAIT"
    /\ worker.result.steps = worker.steps
    /\ worker.retryCount = worker.maxRetries

\* C35, as stated: a step of the worker LLM that is a repetition and speaks
\* of completion is handled as a repetition: the retry counter goes up and
\* the run does not end DONE.
C35Claim ==
    [][(/\ Asked
        /\ worker'.answer.tool \notin {"DONE", "FAIL", "fault"}
        /\ worker'.answer.completion
        /\ Occurrences(worker.recentActionHistory, worker'.answer)
                >= MAX_DUPLICATES) =>
            /\ worker'.retryCount = worker.retryCount + 1
            /\ worker'.result.status # "DONE"]_vars

\* C36: retryCount is 0 when the loop starts and never goes down; a turn
\* increments it by one when it detects a repetition or catches a fault of
\* executeStep, and leaves it alone otherwise; a returned result carries it,
\* at most maxRetries, and exactly maxRetries when the run failed for
\* repetitions or for faults.
C36Theorem ==
    [][/\ worker.state = "STARTING" => worker'.retryCount = 0
       /\ worker'.retryCount >= worker.retryCount
       /\ worker'.retryCount
            = worker.retryCount
                + (IF Detected \/ (Asked /\ worker'.faulted) THEN 1 ELSE 0)
       /\ worker'.state = "RETURNED" =>
            /\ worker'.result.retryCount = worker'.retryCount
            /\ worker'.result.retryCount <= worker'.maxRetries
            /\ worker'.result.error \in {"repeating", "fault"} =>
                    worker'.result.retryCount = worker'.maxRetries]_vars

\* A run that paused for a repetition failed on a fault of executeStep, with
\* maxRetries retries of the two kinds together.
C36Witness ==
    /\ worker.state = "RETURNED"
    /\ worker.result.error = "fault"
    /\ worker.pauses >= 1
    /\ worker.result.retryCount > worker.pauses
    /\ worker.result.retryCount = worker.maxRetries

\* C37, as stated: a result executeSubtask returns holds at most MAX_STEPS
\* steps.
C37Claim ==
    worker.state = "RETURNED" => worker.result.steps <= MAX_STEPS

\* C37, amended: the loop never starts a turn with more than MAX_STEPS
\* steps, and a result executeSubtask returns holds at most MAX_STEPS + 1
\* steps: the turn that pushes the 15th step may push one step of the
\* loop's own after it, and the result of the step ceiling holds MAX_STEPS.
C37Theorem ==
    /\ worker.state = "LOOPING" => worker.steps <= MAX_STEPS
    /\ worker.state = "RETURNED" =>
            /\ worker.result.steps = worker.steps
            /\ worker.result.steps <= MAX_STEPS + 1
            /\ worker.result.steps = MAX_STEPS + 1 =>
                    worker.lastStep \in {"DONE", "FAIL"}
            /\ worker.result.error = "Exceeded maximum number of steps (15)"
                    => worker.result.steps = MAX_STEPS

\* The 15th step was a CLOSE step: the run is DONE with 16 steps.
C37Witness ==
    /\ worker.state = "RETURNED"
    /\ worker.result.status = "DONE"
    /\ worker.nextStep.tool = "CLOSE"
    /\ worker.result.steps = MAX_STEPS + 1

\* The subtask of the poll loop's task with this id.
Polled(store, sid) ==
    store[taskId].subtasks[IndexOfId(store[taskId].subtasks, sid)]

\* C38: in the poll loop a claim returns a subtask that is PENDING and has
\* no result, which is to say one no EXECUTE_WORKER_TASK was sent for;
\* every EXECUTE_WORKER_TASK of the loop is for a subtask the store holds
\* and leaves it DONE or FAILED with a result, whether executeSubtask
\* returned or raised, and no update of it fails; when the request fails the
\* loop is left; and a subtask with a result keeps one.
C38Theorem ==
    [][/\ (pc = "claim" /\ pc' = "execute") =>
            /\ Polled(tasks', workerData').status = "PENDING"
            /\ Polled(tasks', workerData').result = NoResult
       /\ pc = "execute" =>
            /\ ~NotFound(tasks, taskId, workerData)
            /\ Polled(tasks', workerData).status \in {"DONE", "FAILED"}
            /\ Polled(tasks', workerData).result # NoResult
            /\ \A k \in 1..Len(response'.updates) : response'.updates[k].stored
            /\ ~response'.success => pc' = "legacy"
       /\ \A tid \in DOMAIN tasks : \A i \in 1..Len(tasks[tid].subtasks) :
            tasks[tid].subtasks[i].result # NoResult =>
                /\ tid \in DOMAIN tasks'
                /\ tasks'[tid].subtasks[i].result # NoResult
                /\ tasks'[tid].subtasks[i].status \in {"DONE", "FAILED"}]_vars

\* A second subtask is claimed after the first was executed, and its
\* Execution Loop raises: the loop is left with both subtasks executed once.
C38Witness ==
    /\ pc = "legacy"
    /\ request.action = "EXECUTE_WORKER_TASK"
    /\ request.result = LoopFault
    /\ request.subtaskId = workerData
    /\ Polled(tasks, workerData).status = "FAILED"
    /\ \E i \in 1..Len(tasks[taskId].subtasks) :
            /\ tasks[taskId].subtasks[i].id # workerData
            /\ tasks[taskId].subtasks[i].status = "DONE"

\* C39: a best-effort call that raises changes nothing.  When the initial
\* SCREENSHOT raises the loop is entered with the screenshot still null, no
\* step and no retry; when the SCREENSHOT after a step, after a repetition
\* or before a retry raises, or the EXTRACT of the location after a GOTO
\* does, the value it was to replace is the one before the turn, the turn
\* has pushed its one step, the retry counter has moved only for the
\* repetition or the fault of the step itself, and the run goes on.
C39Theorem ==
    [][/\ (worker.state = "STARTING" /\ worker'.refresh.screenshot = "fault")
            => /\ worker'.state = "LOOPING"
               /\ worker'.currentScreenshot = worker.currentScreenshot
               /\ worker'.steps = 0
               /\ worker'.retryCount = 0
       /\ (Asked /\ "fault" \in {worker'.refresh.screenshot,
                                 worker'.refresh.url})
            => /\ worker'.state = "LOOPING"
               /\ worker'.steps = worker.steps + 1
               /\ worker'.retryCount
                    = worker.retryCount
                        + (IF Detected \/ worker'.faulted THEN 1 ELSE 0)
               /\ worker'.extraction = worker.extraction
               /\ worker'.refresh.screenshot = "fault" =>
                    worker'.currentScreenshot = worker.currentScreenshot
               /\ worker'.refresh.url = "fault" =>
                    worker'.currentUrl = worker.currentUrl]_vars

\* After a GOTO whose two refreshes raised, the run goes on with the
\* location and the screenshot an earlier turn had got.
C39Witness ==
    /\ worker.state = "LOOPING"
    /\ worker.nextStep.tool = "GOTO"
    /\ worker.acted
    /\ worker.refresh = [url |-> "fault", screenshot |-> "fault"]
    /\ worker.currentUrl = "url"
    /\ worker.currentScreenshot = "shot"

\* A turn whose EXTRACT step was executed and returned.
Extracted ==
    /\ Asked
    /\ worker'.nextStep.tool = "EXTRACT"
    /\ worker'.acted
    /\ ~worker'.faulted

\* C40, as stated: after an EXTRACT step that returned, the extraction kept
\* for a DONE result and for the next request to the worker LLM is what that
\* step returned (null when it returned nothing).
C40Claim ==
    [][Extracted =>
            LET result == IF worker'.extracted = "empty" THEN "null"
                          ELSE worker'.extracted
            IN  /\ worker'.extraction = result
                /\ worker'.previousExtraction = result]_vars

\* C40, amended: the extraction starts as null and the prior extraction as
\* the caller gave it; an EXTRACT step that returned something other than
\* nothing sets both to what it returned; every other turn, an EXTRACT that
\* returned nothing or raised included, leaves both as they were; and a DONE
\* result carries the extraction of that moment.
C40Theorem ==
    [][/\ worker.state = "STARTING" => worker'.extraction = "null"
       /\ (Extracted /\ worker'.extracted # "empty") =>
            /\ worker'.extracted \in {"data", "data2"}
            /\ worker'.extraction = worker'.extracted
            /\ worker'.previousExtraction = worker'.extracted
       /\ (IterationStep /\ ~(Extracted /\ worker'.extracted # "empty")) =>
            /\ worker'.extraction = worker.extraction
            /\ worker'.previousExtraction = worker.previousExtraction
       /\ (IterationStep /\ worker'.result.status = "DONE") =>
            worker'.result.extraction = worker.extraction]_vars

\* An EXTRACT step returned data and a later one returned nothing: the run
\* goes on with the data of the earlier one, for its result and for the
\* next request.
C40Witness ==
    /\ worker.state = "LOOPING"
    /\ worker.nextStep.tool = "EXTRACT"
    /\ worker.acted
    /\ worker.extracted = "empty"
    /\ worker.extraction = "data2"
    /\ worker.previousExtraction = "data2"

=============================================================================
